---- MODULE Spec2Model ----
(***************************************************************************)
(* chromaprint: FingerprintDecompressor (src/src/fingerprint_decompressor.cpp) *)
(*                                                                         *)
(* A decompressor object keeps two member vectors, m_bits (the position-   *)
(* code sequence) and m_result (the codewords).  Decompress(data,          *)
(* algorithm) parses a 4-byte header, reads 3-bit normal codes, resolves   *)
(* the escaped ones with 5-bit exception codes and rebuilds the codewords. *)
(*                                                                         *)
(* Representation.  A byte is an integer 0..255.  A 32-bit word (uint32_t  *)
(* codeword, int accumulator) is the set of its set bit positions, a       *)
(* subset of 0..31: x ^ y is the symmetric difference, x | (1 << b) adds   *)
(* b.  The word 0xFFFFFFFF is the set 0..31.                               *)
(*                                                                         *)
(* BitStringReader and the compressor are not among the source files; the  *)
(* reader is modelled from the bit-cursor contract of the specification    *)
(* (sections 4.3 and 6) and the encoder from its description of the wire   *)
(* format (sections 1, 3, 4.3 and 6).                                      *)
(***************************************************************************)
EXTENDS Integers, Sequences, FiniteSets

VARIABLES
    pending,     \* the buffers the caller passes to Decompress, in order
    calls,       \* number of Decompress calls started on this object
    pc,          \* position of the current call
    data,        \* argument of the current call
    algorithm,   \* caller's *algorithm: <<>> while unwritten, <<v>> once written
    cursor,      \* BitStringReader: bit offset of the next unread bit of data
    m_bits,      \* member: position-code sequence
    m_result,    \* member: codewords
    i,           \* local i of the function being executed
    j,           \* local j of UnpackBits
    last_bit,    \* local last_bit of UnpackBits
    value,       \* local value of UnpackBits
    ret,         \* vector returned by the current call
    debug,       \* last DEBUG message of the current call
    raw,         \* history: m_bits as the normal-code pass of this call left it
    stale,       \* history: Len(m_bits) when this call started
    groups,      \* history: 5-bit groups read by this call's exception pass
    starts,      \* history: cursor at which each of these groups started
    normal_end,  \* history: cursor when this call's normal-code pass ended
    written,     \* history: slots of m_result assigned by this call's UnpackBits
    oob          \* history: UnpackBits indexed m_result out of bounds in this call

vars == <<pending, calls, pc, data, algorithm, cursor, m_bits, m_result, i, j,
          last_bit, value, ret, debug, raw, stale, groups, starts, normal_end,
          written, oob>>

----------------------------------------------------------------------------
(* Program constants *)

kMaxNormalValue == 7
kNormalBits == 3
kExceptionBits == 5
kWordBits == 32
kHeaderBytes == 4

(* Bounds of the model *)

MaxCount == 3      \* largest declared count among the raw headers
MaxPayload == 2    \* longest raw payload, in bytes
MaxWords == 2      \* longest codeword sequence given to the encoder
MaxCalls == 2      \* most Decompress calls on one object

----------------------------------------------------------------------------
(* 32-bit words as sets of bit positions *)

WordPositions == 0 .. (kWordBits - 1)

\* m_result.assign(length, -1): -1 converted to uint32_t
Sentinel == WordPositions

\* value ^ m_result[i - 1]
Xor(x, y) == (x \ y) \cup (y \ x)

\* the word of a small non-negative integer
Word(n) == {b \in 0 .. 30 : (n \div (2 ^ b)) % 2 = 1}

\* 1 << s for an int: defined for 0 <= s < 32.  For s >= 32 the shift is
\* undefined; builds either use the low five bits of s or produce 0.
ShiftOutcomes(s) ==
    IF s < kWordBits THEN {{s}} ELSE {{s % kWordBits}, {}}

----------------------------------------------------------------------------
(* BitStringReader, from the bit-cursor contract *)

TotalBits(d) == 8 * Len(d)

\* bit p of the buffer, most significant bit of each byte first; a bit past
\* the end reads as 0
BitAt(d, p) ==
    IF p < TotalBits(d) THEN (d[(p \div 8) + 1] \div (2 ^ (7 - (p % 8)))) % 2 ELSE 0

RECURSIVE ReadValue(_, _, _)
\* read(n): the next n bits as an unsigned big-endian group
ReadValue(d, pos, n) ==
    IF n = 0 THEN 0
    ELSE BitAt(d, pos) * (2 ^ (n - 1)) + ReadValue(d, pos + 1, n - 1)

\* read(n) advances the cursor
ReadAdvance(pos, n) == pos + n

AvailableBits(d, pos) == IF pos >= TotalBits(d) THEN 0 ELSE TotalBits(d) - pos

Eof(d, pos) == pos >= TotalBits(d)

\* Reset before a pass: the pass starts at the first bit not yet consumed
\* (offset 32 before the normal-code pass, the end of the normal codes
\* before the exception pass)
Reset(pos) == pos

----------------------------------------------------------------------------
(* Decompress: header *)

\* data[k]; std::string::operator[] yields '\0' at k = size()
ByteAt(d, k) == IF k < Len(d) THEN d[k + 1] ELSE 0

TooShortBad(d) == Len(d) < 3

\* data.size() < 4
TooShort(d) == Len(d) < kHeaderBytes

\* *algorithm = data[0]: char to int; char is signed or unsigned by platform
CharToInt(b, signedChar) == IF signedChar /\ b >= 128 THEN b - 256 ELSE b

DeclaredLengthBad(d) == ByteAt(d, 3)

\* size_t length = (data[1] << 16) | (data[2] << 8) | data[3]
DeclaredLength(d) == ByteAt(d, 1) * 65536 + ByteAt(d, 2) * 256 + ByteAt(d, 3)

TruncatedBad(avail, length) == avail < length

\* reader.AvailableBits() < length * kNormalBits
Truncated(avail, length) == avail < length * kNormalBits

\* m_result.assign(length, -1)
Assign(length) == [k \in 1 .. length |-> Sentinel]

----------------------------------------------------------------------------
(* ReadNormalBits *)

NormalLoopCondBad(k, size) == k + 1 < size

NormalLoopCondExtra(k, size) == k <= size

\* while (i < m_result.size())
NormalLoopCond(k, size) == k < size

\* if (bit == 0) i++
NextSegmentCount(k, bit) == IF bit = 0 THEN k + 1 ELSE k

----------------------------------------------------------------------------
(* ReadExceptionBits: one iteration of the loop over m_bits, at index k
   (0-based).  ok = FALSE is the return false on eof. *)

ExceptionStepNoEofCheck(bits, k, d, pos) ==
    IF bits[k + 1] = kMaxNormalValue
    THEN [ok |-> TRUE,
          bits |-> [bits EXCEPT ![k + 1] = @ + ReadValue(d, pos, kExceptionBits)],
          pos |-> ReadAdvance(pos, kExceptionBits),
          read |-> <<ReadValue(d, pos, kExceptionBits)>>]
    ELSE [ok |-> TRUE, bits |-> bits, pos |-> pos, read |-> <<>>]

ExceptionStepNoAdd(bits, k, d, pos) ==
    IF bits[k + 1] = kMaxNormalValue
    THEN IF Eof(d, pos)
         THEN [ok |-> FALSE, bits |-> bits, pos |-> pos, read |-> <<>>]
         ELSE [ok |-> TRUE,
               bits |-> [bits EXCEPT ![k + 1] = ReadValue(d, pos, kExceptionBits)],
               pos |-> ReadAdvance(pos, kExceptionBits),
               read |-> <<ReadValue(d, pos, kExceptionBits)>>]
    ELSE [ok |-> TRUE, bits |-> bits, pos |-> pos, read |-> <<>>]

ExceptionStep(bits, k, d, pos) ==
    IF bits[k + 1] = kMaxNormalValue
    THEN IF Eof(d, pos)
         THEN [ok |-> FALSE, bits |-> bits, pos |-> pos, read |-> <<>>]
         ELSE [ok |-> TRUE,
               bits |-> [bits EXCEPT ![k + 1] = @ + ReadValue(d, pos, kExceptionBits)],
               pos |-> ReadAdvance(pos, kExceptionBits),
               read |-> <<ReadValue(d, pos, kExceptionBits)>>]
    ELSE [ok |-> TRUE, bits |-> bits, pos |-> pos, read |-> <<>>]

----------------------------------------------------------------------------
(* UnpackBits *)

FinalizeNoXor(k, v, result) == v

\* (i > 0) ? value ^ m_result[i - 1] : value
Finalize(k, v, result) == IF k > 0 THEN Xor(v, result[k]) ELSE v

AbsolutePositionClamped(bit, last) ==
    IF bit + last > kWordBits THEN kWordBits ELSE bit + last

\* bit += last_bit
AbsolutePosition(bit, last) == bit + last

----------------------------------------------------------------------------
(* Decompress on a freshly constructed object, as a function of the buffer:
   the same statements, the loops as recursion.  The result is the returned
   vector (<<>> on failure); defined is FALSE when a shift count reaches 32. *)

RECURSIVE NormalPass(_, _, _, _, _)
\* ReadNormalBits with m_result.size() = size, k zero codes seen so far
NormalPass(d, pos, k, size, bits) ==
    IF NormalLoopCond(k, size)
    THEN LET bit == ReadValue(d, pos, kNormalBits)
         IN  NormalPass(d, ReadAdvance(pos, kNormalBits), NextSegmentCount(k, bit),
                        size, Append(bits, bit))
    ELSE [bits |-> bits, pos |-> pos]

RECURSIVE ExceptionPass(_, _, _, _)
\* ReadExceptionBits from index k on
ExceptionPass(bits, k, d, pos) ==
    IF k < Len(bits)
    THEN LET step == ExceptionStep(bits, k, d, pos)
         IN  IF step.ok THEN ExceptionPass(step.bits, k + 1, d, step.pos)
             ELSE [ok |-> FALSE, bits |-> bits]
    ELSE [ok |-> TRUE, bits |-> bits]

RECURSIVE Unpack(_, _, _, _, _, _)
\* UnpackBits from index jj on, with locals k (i), last, v
Unpack(bits, jj, k, last, v, result) ==
    IF jj < Len(bits)
    THEN LET bit == bits[jj + 1]
         IN  IF bit = 0
             THEN Unpack(bits, jj + 1, k + 1, 0, {},
                         [result EXCEPT ![k + 1] = Finalize(k, v, result)])
             ELSE IF AbsolutePosition(bit, last) - 1 >= kWordBits
                  THEN [defined |-> FALSE, vector |-> <<>>]
                  ELSE Unpack(bits, jj + 1, k, AbsolutePosition(bit, last),
                              v \cup {AbsolutePosition(bit, last) - 1}, result)
    ELSE [defined |-> TRUE, vector |-> result]

DecompressFresh(d) ==
    IF TooShort(d) THEN [defined |-> TRUE, vector |-> <<>>]
    ELSE IF Truncated(AvailableBits(d, 8 * kHeaderBytes), DeclaredLength(d))
    THEN [defined |-> TRUE, vector |-> <<>>]
    ELSE LET np == NormalPass(d, Reset(8 * kHeaderBytes), 0, DeclaredLength(d), <<>>)
             ep == ExceptionPass(np.bits, 0, d, Reset(np.pos))
         IN  IF ep.ok THEN Unpack(ep.bits, 0, 0, 0, {}, Assign(DeclaredLength(d)))
             ELSE [defined |-> TRUE, vector |-> <<>>]

----------------------------------------------------------------------------
(* The encoder of the wire format: header, 3-bit normal codes of the gaps
   between the set bit positions of each XOR-delta (0 ends a codeword),
   then the 5-bit exception codes of the gaps of 7 and more. *)

RECURSIVE GapCodes(_, _)
\* gaps between the 1-indexed set bit positions of delta above position last
GapCodes(delta, last) ==
    LET above == {b + 1 : b \in delta} \ (0 .. last)
    IN  IF above = {} THEN <<>>
        ELSE LET p == CHOOSE q \in above : \A r \in above : q <= r
             IN  <<p - last>> \o GapCodes(delta, p)

RECURSIVE NormalOf(_)
NormalOf(gaps) ==
    IF gaps = <<>> THEN <<>>
    ELSE <<IF Head(gaps) >= kMaxNormalValue THEN kMaxNormalValue ELSE Head(gaps)>>
         \o NormalOf(Tail(gaps))

RECURSIVE ExceptionOf(_)
ExceptionOf(gaps) ==
    IF gaps = <<>> THEN <<>>
    ELSE (IF Head(gaps) >= kMaxNormalValue
          THEN <<Head(gaps) - kMaxNormalValue>> ELSE <<>>)
         \o ExceptionOf(Tail(gaps))

\* codeword k is stored as its XOR with codeword k - 1
Delta(S, k) == IF k = 1 THEN S[1] ELSE Xor(S[k], S[k - 1])

RECURSIVE EncNormal(_, _)
EncNormal(S, k) ==
    IF k > Len(S) THEN <<>>
    ELSE NormalOf(GapCodes(Delta(S, k), 0)) \o <<0>> \o EncNormal(S, k + 1)

RECURSIVE EncException(_, _)
EncException(S, k) ==
    IF k > Len(S) THEN <<>>
    ELSE ExceptionOf(GapCodes(Delta(S, k), 0)) \o EncException(S, k + 1)

\* n-bit big-endian group of v
GroupBits(v, n) == [k \in 1 .. n |-> (v \div (2 ^ (n - k))) % 2]

RECURSIVE PackGroups(_, _)
PackGroups(codes, n) ==
    IF codes = <<>> THEN <<>>
    ELSE GroupBits(Head(codes), n) \o PackGroups(Tail(codes), n)

\* bits to bytes, most significant bit first, the last byte padded with 0
ByteOf(bs, k) ==
    LET b(m) == IF 8 * k + m <= Len(bs) THEN bs[8 * k + m] ELSE 0
    IN  b(1) * 128 + b(2) * 64 + b(3) * 32 + b(4) * 16
        + b(5) * 8 + b(6) * 4 + b(7) * 2 + b(8)

PackBytes(bs) == [k \in 1 .. ((Len(bs) + 7) \div 8) |-> ByteOf(bs, k - 1)]

Encode(alg, S) ==
    <<alg, 0, 0, Len(S)>>
    \o PackBytes(PackGroups(EncNormal(S, 1), kNormalBits)
                 \o PackGroups(EncException(S, 1), kExceptionBits))

----------------------------------------------------------------------------
(* Inputs *)

SeqsUpTo(S, n) == UNION {[1 .. m -> S] : m \in 0 .. n}

\* codewords given to the encoder: 0, 1, 4, 5, bit 7, bit 31, bits 0 and 31,
\* and 0xFFFFFFFF
Codewords == {{}, {0}, {2}, {0, 2}, {7}, {31}, {0, 31}, WordPositions}

CodewordSeqs == SeqsUpTo(Codewords, MaxWords)

EncodedBuffers == {Encode(1, S) : S \in CodewordSeqs}

\* payload bytes: 000 000 00, 001 000 00, 011 000 00, 001 001 01,
\* 111 000 00, 111 000 11, 111 111 11
PayloadBytes == {0, 32, 96, 37, 224, 227, 255}

Headers ==
    {<<1, 0, 0, n>> : n \in 0 .. MaxCount}
    \cup {<<200, 0, 0, 1>>, <<0, 0, 0, 2>>, <<1, 0, 1, 0>>, <<1, 1, 0, 0>>,
          <<1, 0, 1, 1>>, <<1, 1, 0, 1>>}

RawBuffers == {h \o p : h \in Headers, p \in SeqsUpTo(PayloadBytes, MaxPayload)}

ShortBuffers == SeqsUpTo({0, 1, 200}, kHeaderBytes - 1)

Buffers == ShortBuffers \cup RawBuffers \cup EncodedBuffers

\* buffers passed to an object that is used more than once
ReuseBuffers ==
    {<<1, 0, 0>>, <<1, 0, 0, 0>>, <<1, 0, 0, 3, 0>>, <<1, 0, 0, 1, 32>>,
     <<1, 0, 0, 1, 224>>, <<1, 0, 0, 2, 224>>, <<1, 0, 0, 1, 224, 255>>,
     Encode(1, <<{}, {2}>>), Encode(1, <<{7}>>)}

Scripts ==
    {<<b>> : b \in Buffers}
    \cup UNION {[1 .. m -> ReuseBuffers] : m \in 2 .. MaxCalls}

----------------------------------------------------------------------------
(* The object after construction, and the caller's script *)

Init ==
    /\ pending \in Scripts
    /\ calls = 0
    /\ pc = "Idle"
    /\ data = <<>>
    /\ algorithm = <<>>
    /\ cursor = 0
    /\ m_bits = <<>>
    /\ m_result = <<>>
    /\ i = 0
    /\ j = 0
    /\ last_bit = 0
    /\ value = {}
    /\ ret = <<>>
    /\ debug = ""
    /\ raw = <<>>
    /\ stale = 0
    /\ groups = <<>>
    /\ starts = <<>>
    /\ normal_end = 0
    /\ written = {}
    /\ oob = FALSE

locals == <<i, j, last_bit, value>>
history == <<raw, stale, groups, starts, normal_end, written, oob>>

\* the caller invokes Decompress(data, &algorithm) with the next buffer and
\* an algorithm variable not yet written; the members keep their contents
Call ==
    /\ pc \in {"Idle", "Done", "Failed"}
    /\ calls < Len(pending)
    /\ calls' = calls + 1
    /\ data' = pending[calls + 1]
    /\ pc' = "ParsingHeader"
    /\ algorithm' = <<>>
    /\ cursor' = 0
    /\ i' = 0 /\ j' = 0 /\ last_bit' = 0 /\ value' = {}
    /\ ret' = <<>>
    /\ debug' = ""
    /\ raw' = <<>>
    /\ stale' = Len(m_bits)
    /\ groups' = <<>>
    /\ starts' = <<>>
    /\ normal_end' = 0
    /\ written' = {}
    /\ oob' = FALSE
    /\ UNCHANGED <<pending, m_bits, m_result>>

ParseHeaderLateWrite ==
    /\ pc = "ParsingHeader"
    /\ IF TooShort(data)
       THEN /\ pc' = "Failed"
            /\ ret' = <<>>
            /\ debug' = "shorter than 4 bytes"
            /\ UNCHANGED <<algorithm, cursor, m_result>>
       ELSE LET length == DeclaredLength(data)
                after == ReadAdvance(ReadAdvance(ReadAdvance(ReadAdvance(0, 8), 8), 8), 8)
            IN  IF Truncated(AvailableBits(data, after), length)
                THEN /\ pc' = "Failed"
                     /\ ret' = <<>>
                     /\ debug' = "too short"
                     /\ cursor' = after
                     /\ UNCHANGED <<algorithm, m_result>>
                ELSE /\ \E signedChar \in BOOLEAN :
                            algorithm' = <<CharToInt(ByteAt(data, 0), signedChar)>>
                     /\ m_result' = Assign(length)
                     /\ cursor' = Reset(after)
                     /\ pc' = "ReadingNormalCodes"
                     /\ UNCHANGED <<ret, debug>>
    /\ UNCHANGED <<pending, calls, data, m_bits, locals, history>>

\* Decompress, lines 66-93: size check, algorithm, length, the four
\* Read(8), the AvailableBits check, m_result.assign, Reset
ParseHeader ==
    /\ pc = "ParsingHeader"
    /\ IF TooShort(data)
       THEN /\ pc' = "Failed"
            /\ ret' = <<>>
            /\ debug' = "shorter than 4 bytes"
            /\ UNCHANGED <<algorithm, cursor, m_result>>
       ELSE LET length == DeclaredLength(data)
                after == ReadAdvance(ReadAdvance(ReadAdvance(ReadAdvance(0, 8), 8), 8), 8)
            IN  /\ \E signedChar \in BOOLEAN :
                       algorithm' = <<CharToInt(ByteAt(data, 0), signedChar)>>
                /\ IF Truncated(AvailableBits(data, after), length)
                   THEN /\ pc' = "Failed"
                        /\ ret' = <<>>
                        /\ debug' = "too short"
                        /\ cursor' = after
                        /\ UNCHANGED m_result
                   ELSE /\ m_result' = Assign(length)
                        /\ cursor' = Reset(after)
                        /\ pc' = "ReadingNormalCodes"
                        /\ UNCHANGED <<ret, debug>>
    /\ UNCHANGED <<pending, calls, data, m_bits, locals, history>>

\* ReadNormalBits, lines 39-45: one iteration of the loop
ReadNormalBits_Loop ==
    /\ pc = "ReadingNormalCodes"
    /\ NormalLoopCond(i, Len(m_result))
    /\ LET bit == ReadValue(data, cursor, kNormalBits)
       IN  /\ i' = NextSegmentCount(i, bit)
           /\ m_bits' = Append(m_bits, bit)
    /\ cursor' = ReadAdvance(cursor, kNormalBits)
    /\ UNCHANGED <<pending, calls, pc, data, algorithm, m_result, j, last_bit,
                   value, ret, debug, history>>

\* ReadNormalBits returns true (line 46); Decompress resets the reader and
\* enters ReadExceptionBits (lines 94-99)
ReadNormalBits_Return ==
    /\ pc = "ReadingNormalCodes"
    /\ ~NormalLoopCond(i, Len(m_result))
    /\ pc' = "ReadingExceptionCodes"
    /\ cursor' = Reset(cursor)
    /\ i' = 0
    /\ raw' = m_bits
    /\ normal_end' = cursor
    /\ UNCHANGED <<pending, calls, data, algorithm, m_bits, m_result, j, last_bit,
                   value, ret, debug, stale, groups, starts, written, oob>>

\* ReadExceptionBits, lines 51-60: one iteration of the loop; on eof the
\* function returns false and Decompress returns an empty vector (99-101)
ReadExceptionBits_Loop ==
    /\ pc = "ReadingExceptionCodes"
    /\ i < Len(m_bits)
    /\ LET step == ExceptionStep(m_bits, i, data, cursor)
       IN  IF step.ok
           THEN /\ m_bits' = step.bits
                /\ cursor' = step.pos
                /\ i' = i + 1
                /\ groups' = groups \o step.read
                /\ starts' = IF step.read = <<>> THEN starts ELSE Append(starts, cursor)
                /\ UNCHANGED <<pc, ret, debug>>
           ELSE /\ pc' = "Failed"
                /\ ret' = <<>>
                /\ debug' = "reached EOF while reading exception bits"
                /\ UNCHANGED <<m_bits, cursor, i, groups, starts>>
    /\ UNCHANGED <<pending, calls, data, algorithm, m_result, j, last_bit, value,
                   raw, stale, normal_end, written, oob>>

\* ReadExceptionBits returns true (line 61); Decompress enters UnpackBits
\* (line 103, line 20)
ReadExceptionBits_Return ==
    /\ pc = "ReadingExceptionCodes"
    /\ i >= Len(m_bits)
    /\ pc' = "Reconstructing"
    /\ i' = 0 /\ j' = 0 /\ last_bit' = 0 /\ value' = {}
    /\ UNCHANGED <<pending, calls, data, algorithm, cursor, m_bits, m_result, ret,
                   debug, history>>

\* UnpackBits, lines 21-33: one iteration of the loop.  m_result[i] with
\* i >= m_result.size() is an out-of-bounds write: the process dies, or the
\* write lands outside the vector and the loop goes on.
UnpackBits_Loop ==
    /\ pc = "Reconstructing"
    /\ j < Len(m_bits)
    /\ LET bit == m_bits[j + 1]
       IN  IF bit = 0
           THEN IF i < Len(m_result)
                THEN /\ m_result' = [m_result EXCEPT ![i + 1] = Finalize(i, value, m_result)]
                     /\ written' = written \cup {i}
                     /\ value' = {}
                     /\ last_bit' = 0
                     /\ i' = i + 1
                     /\ j' = j + 1
                     /\ UNCHANGED <<pc, oob>>
                ELSE \/ /\ pc' = "Crashed"
                        /\ oob' = TRUE
                        /\ UNCHANGED <<m_result, written, locals>>
                     \/ /\ oob' = TRUE
                        /\ value' = {}
                        /\ last_bit' = 0
                        /\ i' = i + 1
                        /\ j' = j + 1
                        /\ UNCHANGED <<pc, m_result, written>>
           ELSE /\ last_bit' = AbsolutePosition(bit, last_bit)
                /\ \E shifted \in ShiftOutcomes(AbsolutePosition(bit, last_bit) - 1) :
                       value' = value \cup shifted
                /\ j' = j + 1
                /\ UNCHANGED <<pc, m_result, written, oob, i>>
    /\ UNCHANGED <<pending, calls, data, algorithm, cursor, m_bits, ret, debug,
                   raw, stale, groups, starts, normal_end>>

\* UnpackBits returns (line 34); Decompress returns m_result (line 104)
UnpackBits_Return ==
    /\ pc = "Reconstructing"
    /\ j >= Len(m_bits)
    /\ pc' = "Done"
    /\ ret' = m_result
    /\ UNCHANGED <<pending, calls, data, algorithm, cursor, m_bits, m_result,
                   locals, debug, history>>

Next ==
    \/ Call
    \/ ParseHeader
    \/ ReadNormalBits_Loop
    \/ ReadNormalBits_Return
    \/ ReadExceptionBits_Loop
    \/ ReadExceptionBits_Return
    \/ UnpackBits_Loop
    \/ UnpackBits_Return

Spec == Init /\ [][Next]_vars

TypeOK ==
    /\ pc \in {"Idle", "ParsingHeader", "ReadingNormalCodes", "ReadingExceptionCodes",
               "Reconstructing", "Done", "Failed", "Crashed"}
    /\ calls \in 0 .. Len(pending)
    /\ \A k \in 1 .. Len(m_result) : m_result[k] \subseteq WordPositions
    /\ Len(algorithm) <= 1

----------------------------------------------------------------------------
(* Claims *)

Returned == pc \in {"Done", "Failed"}

Fresh == calls = 1

\* the encoder's output for every codeword sequence of the bounded set
EncodedAs == {<<S, Encode(1, S)>> : S \in CodewordSeqs}

\* C1: round trip: for every codeword sequence S, a Decompress call on the
\* buffer the encoder produces for S returns exactly S.
C1_RoundTrip ==
    \A e \in EncodedAs : (Returned /\ data = e[2]) => ret = e[1]

\* The round trip on a freshly constructed object.
RoundTripFresh ==
    \A e \in EncodedAs : (Returned /\ Fresh /\ data = e[2]) => ret = e[1]

RoundTripFreshWitness ==
    /\ pc = "Done" /\ Fresh
    /\ <<ret, data>> \in EncodedAs
    /\ ret = <<{0, 31}, WordPositions>>
    /\ Len(groups) > 0

\* C2: a returned vector is empty or has exactly declared_count entries, the
\* big-endian 24-bit value of bytes 1..3.
C2_LengthOrEmpty ==
    Returned =>
        \/ ret = <<>>
        \/ /\ Len(data) >= 4
           /\ Len(ret) = data[2] * 65536 + data[3] * 256 + data[4]

C2_Witness ==
    /\ pc = "Done"
    /\ Len(ret) = 3
    /\ data[4] = 3

RECURSIVE SegmentMasks(_, _, _)
\* the masks of the zero-terminated segments of a code sequence: bit p - 1
\* for each running sum p of the segment's nonzero codes
SegmentMasks(codes, last, acc) ==
    IF codes = <<>> THEN <<>>
    ELSE IF Head(codes) = 0
         THEN <<acc>> \o SegmentMasks(Tail(codes), 0, {})
         ELSE SegmentMasks(Tail(codes), last + Head(codes),
                           acc \cup {last + Head(codes) - 1})

\* C3: reconstruction: result[i] is mask(segment i) for i = 0 and
\* mask(segment i) XOR result[i-1] for i > 0; codes [1,0] give [1] and codes
\* [0,3,0] give [0, 4].
C3_Reconstruction ==
    pc = "Done" =>
        LET masks == SegmentMasks(m_bits, 0, {})
        IN  /\ \A k \in 1 .. Len(ret) :
                   ret[k] = IF k = 1 THEN masks[1] ELSE Xor(masks[k], ret[k - 1])
            /\ (m_bits = <<1, 0>> /\ Len(ret) = 1) => ret = <<Word(1)>>
            /\ (m_bits = <<0, 3, 0>> /\ Len(ret) = 2) => ret = <<Word(0), Word(4)>>

\* Reconstruction when no running sum of a segment exceeds 32.
ReconstructionInRange ==
    pc = "Done" =>
        LET masks == SegmentMasks(m_bits, 0, {})
        IN  (\A k \in 1 .. Len(ret) : masks[k] \subseteq WordPositions) =>
                \A k \in 1 .. Len(ret) :
                    ret[k] = IF k = 1 THEN masks[1] ELSE Xor(masks[k], ret[k - 1])

\* indices of the entries equal to 7 among the first k entries
Escaped(bits, k) == {m \in 1 .. k : bits[m] = kMaxNormalValue}

C5_TooShort ==
    (calls >= 1 /\ Len(data) < 4) =>
        /\ pc \in {"ParsingHeader", "Failed"}
        /\ ret = <<>>
        /\ algorithm = <<>>

C5_Witness ==
    /\ pc = "Failed"
    /\ Len(data) = 3
    /\ debug = "shorter than 4 bytes"

\* C6: a buffer of at least 4 bytes that declares N codewords and has fewer
\* than 3 * N payload bits gives an empty vector.
C6_Truncation ==
    (/\ calls >= 1
     /\ Len(data) >= 4
     /\ 8 * (Len(data) - 4) < 3 * (data[2] * 65536 + data[3] * 256 + data[4])) =>
        /\ pc \in {"ParsingHeader", "Failed"}
        /\ ret = <<>>

C6_Witness ==
    /\ pc = "Failed"
    /\ Len(data) = 5
    /\ data[4] = 3
    /\ debug = "too short"

\* the normal-code pass of this call has ended and one of its reads began
\* with no payload bit left
NormalPassExhausted ==
    /\ pc \in {"ReadingExceptionCodes", "Reconstructing", "Done", "Failed", "Crashed"}
    /\ normal_end >= TotalBits(data) + kNormalBits

\* C7: a buffer that passes the 3 * N check but whose payload is exhausted
\* before the normal-code pass has seen declared_count zero groups makes
\* the decode fail: Decompress returns an empty vector.
C7_MalformedStream ==
    (NormalPassExhausted /\ pc \notin {"ReadingExceptionCodes", "Reconstructing"}) =>
        (pc = "Failed" /\ ret = <<>>)

\* C8: when the exception pass is at an entry equal to 7 and the cursor has
\* no more data, the pass fails: no entry is modified, reconstruction is not
\* run and Decompress returns an empty vector.
C8_ExceptionEof ==
    [][/\ (/\ pc = "ReadingExceptionCodes"
           /\ i < Len(m_bits)
           /\ m_bits[i + 1] = kMaxNormalValue
           /\ Eof(data, cursor)) =>
              (/\ pc' = "Failed"
               /\ ret' = <<>>
               /\ m_bits' = m_bits
               /\ m_result' = m_result
               /\ written' = {})
       /\ pc = "Failed" =>
              (/\ pc' \in {"Failed", "ParsingHeader"}
               /\ pc' = "Failed" => (ret' = ret /\ m_bits' = m_bits))]_vars

C8_Witness ==
    /\ pc = "Failed"
    /\ debug = "reached EOF while reading exception bits"
    /\ ret = <<>>
    /\ i + 1 < Len(m_bits)
    /\ m_bits[i + 1] = kMaxNormalValue
    /\ \E k \in (i + 2) .. Len(m_bits) : m_bits[k] = kMaxNormalValue

\* C9: no state crosses calls: a call returns what a call on a freshly
\* constructed object returns for the same buffer, and the position-code
\* sequence is empty when the call's normal-code pass starts.
C9_NoStateCrossesCalls ==
    /\ (pc = "ReadingNormalCodes" /\ cursor = 8 * kHeaderBytes) => m_bits = <<>>
    /\ (Returned /\ DecompressFresh(data).defined) => ret = DecompressFresh(data).vector

\* A call on a freshly constructed object returns DecompressFresh.
FreshAgrees ==
    (Returned /\ Fresh /\ DecompressFresh(data).defined) =>
        ret = DecompressFresh(data).vector

\* C10: after a successful decode no slot of the returned vector equals the
\* fill value 0xFFFFFFFF.
C10_NoSentinel ==
    pc = "Done" => \A k \in 1 .. Len(ret) : ret[k] # Sentinel

\* C10, amended: after a successful decode every slot of the returned vector
\* has been assigned by reconstruction; none is left as m_result.assign
\* filled it.
C10_EverySlotAssigned ==
    pc = "Done" => written = {k - 1 : k \in 1 .. Len(ret)}

C10_Witness ==
    /\ pc = "Done"
    /\ Len(ret) = 2
    /\ ret[2] = Sentinel
    /\ written = {0, 1}

\* the stage changes of one call
StageSteps ==
    {<<"ParsingHeader", "ReadingNormalCodes">>, <<"ParsingHeader", "Failed">>,
     <<"ReadingNormalCodes", "ReadingExceptionCodes">>, <<"ReadingNormalCodes", "Failed">>,
     <<"ReadingExceptionCodes", "Reconstructing">>, <<"ReadingExceptionCodes", "Failed">>,
     <<"Reconstructing", "Done">>}

StageStepOk ==
    pc' # pc =>
        IF calls' # calls
        THEN pc \in {"Idle", "Done", "Failed"} /\ pc' = "ParsingHeader"
        ELSE /\ <<pc, pc'>> \in StageSteps
             /\ pc' = "Reconstructing" =>
                    (debug = "" /\ i >= Len(m_bits))

StageOrderFresh == [][Fresh => StageStepOk]_vars

\* The program is sequential and keeps running: a call that can take a step
\* takes it.
SpecFair == Init /\ [][Next]_vars /\ WF_vars(Next)

TerminationFresh == (pc = "ParsingHeader" /\ Fresh) ~> (Returned /\ Fresh)

\* A call that does not return has written outside m_result.
NoReturnOnlyAfterOob == (pc = "ParsingHeader") ~> (Returned \/ (pc = "Crashed" /\ oob))

\* The 5-bit groups of a call's exception pass are read back to back.
ExceptionGroupsConsecutive ==
    /\ Len(starts) = Len(groups)
    /\ \A k \in 1 .. (Len(starts) - 1) : starts[k + 1] = starts[k] + kExceptionBits

\* C13: the exception pass reads its 5-bit groups consecutively and the
\* first one starts at the first bit the normal-code pass left unread.
\* (Where the pass starts is decided by BitStringReader::Reset.)
C13_ExceptionBitPosition ==
    /\ ExceptionGroupsConsecutive
    /\ starts # <<>> => starts[1] = normal_end

\* the normal-code pass of this call has ended
NormalPassEnded ==
    \/ pc \in {"ReadingExceptionCodes", "Reconstructing", "Done"}
    \/ pc = "Failed" /\ debug = "reached EOF while reading exception bits"

ZeroEntries(bits) == {k \in 1 .. Len(bits) : bits[k] = 0}

PartitionOk ==
    LET count == data[2] * 65536 + data[3] * 256 + data[4]
    IN  /\ Cardinality(ZeroEntries(m_bits)) = count
        /\ count > 0 => (m_bits # <<>> /\ m_bits[Len(m_bits)] = 0)

\* C14: partition invariant: from the end of the normal-code pass on, m_bits
\* has exactly declared_count zero entries and, for declared_count > 0, ends
\* with a zero.
C14_Partition == NormalPassEnded => PartitionOk

\* The partition invariant of the call on a freshly constructed object.
PartitionFresh == (NormalPassEnded /\ Fresh) => PartitionOk

\* the header of the current call has been parsed
HeaderParsed == calls >= 1 /\ Len(data) >= 4 /\ pc # "ParsingHeader"

\* C15: algorithm id pass-through: for a buffer of at least 4 bytes the
\* algorithm reported to the caller equals byte 0, for each value 0..255.
C15_AlgorithmPassThrough == HeaderParsed => algorithm = <<data[1]>>

\* The algorithm id of a byte 0 below 128.
AlgorithmPassThroughLow ==
    (HeaderParsed /\ data[1] < 128) => algorithm = <<data[1]>>

\* reconstruction is at a nonzero code that takes the running sum past 32
PastWord ==
    /\ pc = "Reconstructing"
    /\ j < Len(m_bits)
    /\ m_bits[j + 1] # 0
    /\ last_bit + m_bits[j + 1] > kWordBits

\* C16: bit positions past 32 are reachable and unchecked: at a code that
\* takes the running sum past 32 reconstruction performs the set-bit step
\* with the summed position and goes on to the next code; the call is not
\* failed and a completed call returns declared_count codewords.
C16_PastWordUnchecked ==
    [][/\ PastWord =>
              (/\ pc' = "Reconstructing"
               /\ j' = j + 1
               /\ last_bit' = last_bit + m_bits[j + 1]
               /\ last_bit' - 1 >= kWordBits
               /\ m_bits' = m_bits)
       /\ (last_bit > kWordBits /\ pc' = "Done") =>
              Len(ret') = data[2] * 65536 + data[3] * 256 + data[4]]_vars

C16_Witness ==
    /\ pc = "Done"
    /\ Fresh
    /\ Len(ret) = 1
    /\ data[4] = 1
    /\ m_bits = <<38, 0>>

\* C17: result index in bounds: in a call on a freshly constructed object
\* every write m_result[i] of reconstruction has 0 <= i < declared_count,
\* every read m_result[i - 1] has i >= 1, and the slots 0 .. declared_count - 1
\* are finalized once each, in ascending order.
C17_ResultIndexInBounds ==
    [][Fresh =>
          /\ (pc = "Reconstructing" /\ j < Len(m_bits) /\ m_bits[j + 1] = 0) =>
                 (/\ 0 <= i /\ i < Len(m_result)
                  /\ Len(m_result) = data[2] * 65536 + data[3] * 256 + data[4]
                  /\ written = {k \in 0 .. (Len(m_result) - 1) : k < i}
                  /\ written' = written \cup {i}
                  /\ i' = i + 1
                  /\ m_result'[i + 1] =
                         (IF i >= 1 THEN Xor(value, m_result[i]) ELSE value)
                  /\ ~oob')
          /\ pc' = "Done" => (written' = {k - 1 : k \in 1 .. Len(m_result)} /\ ~oob')]_vars

C17_Witness ==
    /\ pc = "Done"
    /\ Fresh
    /\ written = {0, 1, 2}
    /\ Len(m_result) = 3
    /\ ~oob

\* C18: algorithm id on later failure: for a buffer of at least 4 bytes the
\* caller's algorithm is written from byte 0 before the payload is
\* validated, so it is set also when the call then fails.
C18_AlgorithmOnFailure ==
    HeaderParsed =>
        /\ Len(algorithm) = 1
        /\ (algorithm[1] - data[1]) % 256 = 0

C18_Witness ==
    /\ pc = "Failed"
    /\ Len(data) >= 4
    /\ debug = "reached EOF while reading exception bits"
    /\ ret = <<>>
    /\ algorithm = <<1>>

C18_WitnessTooShort ==
    /\ pc = "Failed"
    /\ Len(data) >= 4
    /\ debug = "too short"
    /\ ret = <<>>
    /\ algorithm = <<1>>

====
